---- MODULE Spec2Model ----
(***************************************************************************)
(* Model of the sign-document-contract program                             *)
(* (programs/sign-document-contract/src).                                  *)
(*                                                                         *)
(* Every instruction is one atomic transaction of the ledger runtime: its  *)
(* account validation (instructions.rs), its handler (lib.rs) and the      *)
(* write-back of the accounts it marked init/mut form ONE action.  A       *)
(* failing instruction reverts every account it touched, so only `result`  *)
(* (what the caller observes) changes.                                     *)
(*                                                                         *)
(* Encodings                                                               *)
(*   Pubkey           an integer; Pubkey::default() is 0                   *)
(*   String           <<tag, len>>: len is its byte length, tag tells      *)
(*                    strings of one length apart; "" is <<0, 0>>          *)
(*   Option<T>        <<>> for None, <<v>> for Some(v)                     *)
(*   [u8; 32]         an integer, 0 for [0u8; 32]                          *)
(*   account          Option of its data: <<>> while the address holds no  *)
(*                    account of this program                              *)
(***************************************************************************)
EXTENDS Integers, Sequences, FiniteSets, TLC

VARIABLES
    admin_config,     \* the AdminConfig account at seeds [ADMIN_CONFIG_SEED]
    form_approvals,   \* the FormApproval account at seeds [FORM_APPROVAL_SEED, form_id]
    clock,            \* Clock::get()?.unix_timestamp
    result,           \* the last instruction: its name, signer, key argument, error and
                      \* return value (for RemoveAdmin: the index its loop found)
    steps             \* instructions run so far (counted only by SpecFull)

vars == <<admin_config, form_approvals, clock, result, steps>>

----------------------------------------------------------------------------
(* Program constants: config.rs *)

MAX_FORM_ID_LENGTH == 64

MAX_METADATA_LENGTH == 256

MAX_ADMINS == 10

(* The runtime's limit on one seed of a derived address                    *)
(* (solana_program::pubkey::MAX_SEED_LEN); form_id.as_bytes() is handed to *)
(* it as a single seed by the seeds clause of instructions.rs.             *)
MAX_SEED_LEN == 32

DefaultPubkey == 0

ZeroHash == 0

EmptyString == <<0, 0>>

Ok == "Ok"

----------------------------------------------------------------------------
(* Bounds of the model and the inputs the instructions are tried with *)

MaxClock == 1

MaxSteps == 3

(* keys that can sign a transaction *)
Principals == {1, 2}

(* keys that can be named as an argument: the signers, the default key and *)
(* enough others to fill the admin list and have one left over             *)
Pubkeys == 0..(MAX_ADMINS + 1)

Hashes == {0, 1, 2}

(* form ids of 0, 32, 33 and 65 bytes *)
FormIds == {EmptyString, <<1, 32>>, <<1, 33>>, <<1, 65>>}

(* metadata strings of 0, 1 and 257 bytes *)
MetadataStrings == {EmptyString, <<1, 1>>, <<1, 257>>}

MetadataOptions == {<<>>, <<(<<1, 1>>)>>, <<(<<1, 257>>)>>}

StrLen(s) == s[2]

----------------------------------------------------------------------------
(* state.rs *)

FormApproval_space(form_id_len, metadata_len) ==
    8 + (4 + form_id_len) + 32 + 32 + 8 + (4 + metadata_len) + 1

AdminConfig_is_admin(cfg, pubkey) ==
    \E i \in 0..(cfg.admin_count - 1) : cfg.admins[i] = pubkey

(* add_admin with the is_admin check dropped *)
add_admin_NoDuplicateCheck(cfg, admin) ==
    IF cfg.admin_count >= MAX_ADMINS
    THEN [err |-> "MaxAdminsReached", cfg |-> cfg]
    ELSE [err |-> Ok,
          cfg |-> [cfg EXCEPT !.admins[cfg.admin_count] = admin,
                              !.admin_count = cfg.admin_count + 1]]

(* add_admin with the capacity check made before the is_admin check *)
add_admin_CapacityFirst(cfg, admin) ==
    IF cfg.admin_count >= MAX_ADMINS
    THEN [err |-> "MaxAdminsReached", cfg |-> cfg]
    ELSE IF AdminConfig_is_admin(cfg, admin)
    THEN [err |-> "AdminAlreadyExists", cfg |-> cfg]
    ELSE [err |-> Ok,
          cfg |-> [cfg EXCEPT !.admins[cfg.admin_count] = admin,
                              !.admin_count = cfg.admin_count + 1]]

(* add_admin that puts the new key first and moves the first to the end *)
add_admin_InsertFirst(cfg, admin) ==
    IF AdminConfig_is_admin(cfg, admin)
    THEN [err |-> "AdminAlreadyExists", cfg |-> cfg]
    ELSE IF cfg.admin_count >= MAX_ADMINS
    THEN [err |-> "MaxAdminsReached", cfg |-> cfg]
    ELSE [err |-> Ok,
          cfg |-> [cfg EXCEPT !.admins[cfg.admin_count] = cfg.admins[0],
                              !.admins[0] = admin,
                              !.admin_count = cfg.admin_count + 1]]

AdminConfig_add_admin(cfg, admin) ==
    IF AdminConfig_is_admin(cfg, admin)
    THEN [err |-> "AdminAlreadyExists", cfg |-> cfg]
    ELSE IF cfg.admin_count >= MAX_ADMINS
    THEN [err |-> "MaxAdminsReached", cfg |-> cfg]
    ELSE [err |-> Ok,
          cfg |-> [cfg EXCEPT !.admins[cfg.admin_count] = admin,
                              !.admin_count = cfg.admin_count + 1]]

(* the loop of remove_admin: Some(first i with admins[i] == admin) or None *)
found_index(cfg, admin) ==
    LET hits == {i \in 0..(cfg.admin_count - 1) : cfg.admins[i] = admin}
    IN  IF hits = {} THEN <<>>
        ELSE <<CHOOSE i \in hits : \A j \in hits : i <= j>>

(* remove_admin with the move of the last admin dropped *)
remove_admin_NoSwap(cfg, admin) ==
    IF cfg.admin_count <= 1
    THEN [err |-> "CannotRemoveLastAdmin", cfg |-> cfg, index |-> <<>>]
    ELSE IF found_index(cfg, admin) = <<>>
    THEN [err |-> "AdminNotFound", cfg |-> cfg, index |-> <<>>]
    ELSE [err |-> Ok,
          cfg |-> [cfg EXCEPT !.admins[cfg.admin_count - 1] = DefaultPubkey,
                              !.admin_count = cfg.admin_count - 1],
          index |-> found_index(cfg, admin)]

(* remove_admin that does not clear the vacated last slot *)
remove_admin_NoClear(cfg, admin) ==
    IF cfg.admin_count <= 1
    THEN [err |-> "CannotRemoveLastAdmin", cfg |-> cfg, index |-> <<>>]
    ELSE IF found_index(cfg, admin) = <<>>
    THEN [err |-> "AdminNotFound", cfg |-> cfg, index |-> <<>>]
    ELSE LET index == found_index(cfg, admin)[1]
             last == cfg.admin_count - 1
             moved == IF index < last
                      THEN [cfg.admins EXCEPT ![index] = cfg.admins[last]]
                      ELSE cfg.admins
         IN  [err |-> Ok,
              cfg |-> [cfg EXCEPT !.admins = moved, !.admin_count = last],
              index |-> <<index>>]

(* remove_admin that hands the authority to the first admin left when the  *)
(* key removed is the authority's                                          *)
remove_admin_HandOver(cfg, admin) ==
    IF cfg.admin_count <= 1
    THEN [err |-> "CannotRemoveLastAdmin", cfg |-> cfg, index |-> <<>>]
    ELSE IF found_index(cfg, admin) = <<>>
    THEN [err |-> "AdminNotFound", cfg |-> cfg, index |-> <<>>]
    ELSE LET index == found_index(cfg, admin)[1]
             last == cfg.admin_count - 1
             moved == IF index < last
                      THEN [cfg.admins EXCEPT ![index] = cfg.admins[last]]
                      ELSE cfg.admins
             cleared == [moved EXCEPT ![last] = DefaultPubkey]
         IN  [err |-> Ok,
              cfg |-> [cfg EXCEPT !.admins = cleared, !.admin_count = last,
                                  !.authority = IF admin = cfg.authority
                                                THEN cleared[0]
                                                ELSE cfg.authority],
              index |-> <<index>>]

(* remove_admin with the lookup made before the count guard *)
remove_admin_LookupFirst(cfg, admin) ==
    IF found_index(cfg, admin) = <<>>
    THEN [err |-> "AdminNotFound", cfg |-> cfg, index |-> <<>>]
    ELSE IF cfg.admin_count <= 1
    THEN [err |-> "CannotRemoveLastAdmin", cfg |-> cfg, index |-> <<>>]
    ELSE LET index == found_index(cfg, admin)[1]
             last == cfg.admin_count - 1
             moved == IF index < last
                      THEN [cfg.admins EXCEPT ![index] = cfg.admins[last]]
                      ELSE cfg.admins
             cleared == [moved EXCEPT ![last] = DefaultPubkey]
         IN  [err |-> Ok,
              cfg |-> [cfg EXCEPT !.admins = cleared, !.admin_count = last],
              index |-> <<index>>]

AdminConfig_remove_admin(cfg, admin) ==
    IF cfg.admin_count <= 1
    THEN [err |-> "CannotRemoveLastAdmin", cfg |-> cfg, index |-> <<>>]
    ELSE IF found_index(cfg, admin) = <<>>
    THEN [err |-> "AdminNotFound", cfg |-> cfg, index |-> <<>>]
    ELSE LET index == found_index(cfg, admin)[1]
             last == cfg.admin_count - 1
             moved == IF index < last
                      THEN [cfg.admins EXCEPT ![index] = cfg.admins[last]]
                      ELSE cfg.admins
             cleared == [moved EXCEPT ![last] = DefaultPubkey]
         IN  [err |-> Ok,
              cfg |-> [cfg EXCEPT !.admins = cleared, !.admin_count = last],
              index |-> <<index>>]

----------------------------------------------------------------------------
(* instructions.rs: account validation, in the order the runtime applies   *)
(* it: every account is loaded, then the init constraint, then the other   *)
(* constraints in field order.                                             *)

(* InitializeAdminConfig with init_if_needed in place of init *)
InitializeAdminConfig_InitIfNeeded == Ok

InitializeAdminConfig_accounts ==
    IF admin_config # <<>> THEN "AccountAlreadyInUse" ELSE Ok

(* SignFormSubmission with init_if_needed in place of init *)
SignFormSubmission_InitIfNeeded(admin, form_id) ==
    IF admin_config = <<>> THEN "AccountNotInitialized"
    ELSE IF StrLen(form_id) > MAX_SEED_LEN THEN "MaxSeedLengthExceeded"
    ELSE IF ~AdminConfig_is_admin(admin_config[1], admin) THEN "UnauthorizedAdmin"
    ELSE Ok

(* SignFormSubmission with the is_admin constraint dropped *)
SignFormSubmission_NoAdminConstraint(admin, form_id) ==
    IF admin_config = <<>> THEN "AccountNotInitialized"
    ELSE IF StrLen(form_id) > MAX_SEED_LEN THEN "MaxSeedLengthExceeded"
    ELSE IF form_approvals[form_id] # <<>> THEN "AccountAlreadyInUse"
    ELSE Ok

SignFormSubmission_accounts(admin, form_id) ==
    IF admin_config = <<>> THEN "AccountNotInitialized"
    ELSE IF StrLen(form_id) > MAX_SEED_LEN THEN "MaxSeedLengthExceeded"
    ELSE IF form_approvals[form_id] # <<>> THEN "AccountAlreadyInUse"
    ELSE IF ~AdminConfig_is_admin(admin_config[1], admin) THEN "UnauthorizedAdmin"
    ELSE Ok

(* UpdateFormApproval with the is_admin constraint dropped *)
UpdateFormApproval_SignerOnly(admin, form_id) ==
    IF form_approvals[form_id] = <<>> THEN "AccountNotInitialized"
    ELSE IF admin_config = <<>> THEN "AccountNotInitialized"
    ELSE IF form_approvals[form_id][1].signer # admin THEN "UnauthorizedAdmin"
    ELSE Ok

UpdateFormApproval_accounts(admin, form_id) ==
    IF form_approvals[form_id] = <<>> THEN "AccountNotInitialized"
    ELSE IF admin_config = <<>> THEN "AccountNotInitialized"
    ELSE IF form_approvals[form_id][1].signer # admin THEN "UnauthorizedAdmin"
    ELSE IF ~AdminConfig_is_admin(admin_config[1], admin) THEN "UnauthorizedAdmin"
    ELSE Ok

(* AddAdmin with is_admin(authority) in place of the authority constraint *)
AddAdmin_AnyAdmin(authority) ==
    IF admin_config = <<>> THEN "AccountNotInitialized"
    ELSE IF ~AdminConfig_is_admin(admin_config[1], authority) THEN "UnauthorizedAdmin"
    ELSE Ok

AddAdmin_accounts(authority) ==
    IF admin_config = <<>> THEN "AccountNotInitialized"
    ELSE IF admin_config[1].authority # authority THEN "UnauthorizedAdmin"
    ELSE Ok

(* RemoveAdmin that also wants its authority to be a live admin *)
RemoveAdmin_AuthorityMustBeAdmin(authority) ==
    IF admin_config = <<>> THEN "AccountNotInitialized"
    ELSE IF admin_config[1].authority # authority THEN "UnauthorizedAdmin"
    ELSE IF ~AdminConfig_is_admin(admin_config[1], authority)
    THEN "UnauthorizedAdmin"
    ELSE Ok

RemoveAdmin_accounts(authority) ==
    IF admin_config = <<>> THEN "AccountNotInitialized"
    ELSE IF admin_config[1].authority # authority THEN "UnauthorizedAdmin"
    ELSE Ok

VerifyFormApproval_accounts(form_id) ==
    IF form_approvals[form_id] = <<>> THEN "AccountNotInitialized" ELSE Ok

(* Write-back of an init/mut FormApproval account: the serialized struct   *)
(* must fit the data length the account was allocated with.                *)
FormApproval_exit(acct) ==
    IF FormApproval_space(StrLen(acct.form_id), StrLen(acct.metadata)) > acct.data_len
    THEN "AccountDidNotSerialize"
    ELSE Ok

----------------------------------------------------------------------------
(* lib.rs: the handlers *)

(* What one instruction leaves behind for its caller: the error or Ok, the *)
(* value returned, and the events emitted. The handlers log with msg! and  *)
(* none of them contains an emit!, so the sequence of events is empty.     *)
Outcome(op, caller, key, err, ret) ==
    [op |-> op, caller |-> caller, key |-> key, err |-> err, ret |-> ret,
     events |-> <<>>]

initialize_admin_config(authority) ==
    LET err == InitializeAdminConfig_accounts
        cfg == [authority |-> authority,
                admins |-> [i \in 0..(MAX_ADMINS - 1) |->
                               IF i = 0 THEN authority ELSE DefaultPubkey],
                admin_count |-> 1]
    IN  /\ admin_config' = IF err = Ok THEN <<cfg>> ELSE admin_config
        /\ result' = Outcome("InitializeAdminConfig", authority, <<>>, err, <<>>)
        /\ UNCHANGED <<form_approvals, clock>>

add_admin(authority, new_admin) ==
    LET acc == AddAdmin_accounts(authority)
        r == AdminConfig_add_admin(admin_config[1], new_admin)
        err == IF acc # Ok THEN acc ELSE r.err
    IN  /\ admin_config' = IF err = Ok THEN <<r.cfg>> ELSE admin_config
        /\ result' = Outcome("AddAdmin", authority, <<new_admin>>, err, <<>>)
        /\ UNCHANGED <<form_approvals, clock>>

remove_admin(authority, admin_to_remove) ==
    LET acc == RemoveAdmin_accounts(authority)
        r == AdminConfig_remove_admin(admin_config[1], admin_to_remove)
        err == IF acc # Ok THEN acc ELSE r.err
    IN  /\ admin_config' = IF err = Ok THEN <<r.cfg>> ELSE admin_config
        /\ result' = Outcome("RemoveAdmin", authority, <<admin_to_remove>>, err,
                             IF acc # Ok THEN <<>> ELSE r.index)
        /\ UNCHANGED <<form_approvals, clock>>

(* the validation of sign_form_submission without the test of the hash *)
sign_form_submission_validate_NoHashCheck(form_id, form_hash, metadata) ==
    IF StrLen(form_id) > MAX_FORM_ID_LENGTH THEN "FormIdTooLong"
    ELSE IF metadata # <<>> /\ StrLen(metadata[1]) > MAX_METADATA_LENGTH
    THEN "MetadataTooLong"
    ELSE Ok

sign_form_submission_validate(form_id, form_hash, metadata) ==
    IF StrLen(form_id) > MAX_FORM_ID_LENGTH THEN "FormIdTooLong"
    ELSE IF metadata # <<>> /\ StrLen(metadata[1]) > MAX_METADATA_LENGTH
    THEN "MetadataTooLong"
    ELSE IF form_hash = ZeroHash THEN "InvalidFormHash"
    ELSE Ok

(* metadata.unwrap_or_default() *)
unwrap_or_default(metadata) ==
    IF metadata = <<>> THEN EmptyString ELSE metadata[1]

(* the account the init constraint allocates and the handler fills in *)
NewFormApproval(admin, form_id, form_hash, metadata) ==
    [form_id |-> form_id,
     form_hash |-> form_hash,
     signer |-> admin,
     approved_at |-> clock,
     metadata |-> unwrap_or_default(metadata),
     data_len |-> FormApproval_space(StrLen(form_id), 0)]

sign_form_submission(admin, form_id, form_hash, metadata) ==
    LET acc == SignFormSubmission_accounts(admin, form_id)
        val == sign_form_submission_validate(form_id, form_hash, metadata)
        acct == NewFormApproval(admin, form_id, form_hash, metadata)
        err == IF acc # Ok THEN acc
               ELSE IF val # Ok THEN val
               ELSE FormApproval_exit(acct)
    IN  /\ form_approvals' = IF err = Ok
                             THEN [form_approvals EXCEPT ![form_id] = <<acct>>]
                             ELSE form_approvals
        /\ result' = Outcome("SignFormSubmission", admin, <<form_id>>, err, <<>>)
        /\ UNCHANGED <<admin_config, clock>>

update_form_approval_validate(metadata) ==
    IF StrLen(metadata) > MAX_METADATA_LENGTH THEN "MetadataTooLong" ELSE Ok

(* update_form_approval that also stamps the time of the update *)
UpdatedFormApproval_Restamp(acct, metadata) ==
    [acct EXCEPT !.metadata = metadata, !.approved_at = clock]

UpdatedFormApproval(acct, metadata) ==
    [acct EXCEPT !.metadata = metadata]

update_form_approval(admin, form_id, metadata) ==
    LET acc == UpdateFormApproval_accounts(admin, form_id)
        val == update_form_approval_validate(metadata)
        acct == UpdatedFormApproval(form_approvals[form_id][1], metadata)
        err == IF acc # Ok THEN acc
               ELSE IF val # Ok THEN val
               ELSE FormApproval_exit(acct)
    IN  /\ form_approvals' = IF err = Ok
                             THEN [form_approvals EXCEPT ![form_id] = <<acct>>]
                             ELSE form_approvals
        /\ result' = Outcome("UpdateFormApproval", admin, <<form_id>>, err, <<>>)
        /\ UNCHANGED <<admin_config, clock>>

(* verify_form_approval that reports every existing record as valid *)
verify_form_approval_NoCompare(caller, form_id, expected_hash) ==
    LET err == VerifyFormApproval_accounts(form_id)
    IN  /\ result' = Outcome("VerifyFormApproval", caller, <<form_id>>, err,
                             IF err = Ok THEN <<TRUE>> ELSE <<>>)
        /\ UNCHANGED <<admin_config, form_approvals, clock>>

verify_form_approval(caller, form_id, expected_hash) ==
    LET err == VerifyFormApproval_accounts(form_id)
        is_valid == form_approvals[form_id][1].form_hash = expected_hash
    IN  /\ result' = Outcome("VerifyFormApproval", caller, <<form_id>>, err,
                             IF err = Ok THEN <<is_valid>> ELSE <<>>)
        /\ UNCHANGED <<admin_config, form_approvals, clock>>

(* the tuple get_form_approval_details returns for an account *)
FormApprovalDetails(form_approval) ==
    <<form_approval.form_id,
      form_approval.form_hash,
      form_approval.signer,
      form_approval.approved_at,
      form_approval.metadata>>

get_form_approval_details(caller, form_id) ==
    LET err == VerifyFormApproval_accounts(form_id)
    IN  /\ result' = Outcome("GetFormApprovalDetails", caller, <<form_id>>, err,
                             IF err = Ok
                             THEN FormApprovalDetails(form_approvals[form_id][1])
                             ELSE <<>>)
        /\ UNCHANGED <<admin_config, form_approvals, clock>>

(* the runtime's clock, monotonically non-decreasing *)
Tick ==
    /\ clock < MaxClock
    /\ clock' = clock + 1
    /\ result' = Outcome("Tick", DefaultPubkey, <<>>, Ok, <<>>)
    /\ UNCHANGED <<admin_config, form_approvals>>

----------------------------------------------------------------------------
Init ==
    /\ admin_config = <<>>
    /\ form_approvals = [f \in FormIds |-> <<>>]
    /\ clock = 0
    /\ result = Outcome("none", DefaultPubkey, <<>>, Ok, <<>>)
    /\ steps = 0

Next ==
    \/ \E a \in Principals : initialize_admin_config(a) /\ UNCHANGED steps
    \/ \E a \in Principals, n \in Principals : add_admin(a, n) /\ UNCHANGED steps
    \/ \E a \in Principals, n \in Principals : remove_admin(a, n) /\ UNCHANGED steps
    \/ \E a \in Principals, f \in FormIds, h \in Hashes, m \in MetadataOptions :
          sign_form_submission(a, f, h, m) /\ UNCHANGED steps
    \/ \E a \in Principals, f \in FormIds, m \in MetadataStrings :
          update_form_approval(a, f, m) /\ UNCHANGED steps
    \/ \E f \in FormIds, h \in Hashes :
          verify_form_approval(DefaultPubkey, f, h) /\ UNCHANGED steps
    \/ \E f \in FormIds : get_form_approval_details(DefaultPubkey, f) /\ UNCHANGED steps
    \/ Tick /\ UNCHANGED steps

Spec == Init /\ [][Next]_vars

----------------------------------------------------------------------------
(* The registry near its capacity.  InitFull is the state after            *)
(* initialize_admin_config by key 1 and add_admin(1, 2) .. add_admin(1, n) *)
(* in this order, for n = 1 and n = MAX_ADMINS - 1; from there every      *)
(* instruction is tried with any key as its argument, for MaxSteps         *)
(* instructions.                                                           *)

RegistryAfter(n) ==
    [authority |-> 1,
     admins |-> [i \in 0..(MAX_ADMINS - 1) |-> IF i < n THEN i + 1 ELSE DefaultPubkey],
     admin_count |-> n]

InitFull ==
    /\ \E n \in {1, MAX_ADMINS - 1} :
          /\ admin_config = <<RegistryAfter(n)>>
          /\ result = IF n = 1
                      THEN Outcome("InitializeAdminConfig", 1, <<>>, Ok, <<>>)
                      ELSE Outcome("AddAdmin", 1, <<n>>, Ok, <<>>)
    /\ form_approvals = [f \in FormIds |-> <<>>]
    /\ clock = 0
    /\ steps = 0

Step ==
    /\ steps < MaxSteps
    /\ steps' = steps + 1

NextFull ==
    \/ \E a \in Principals : initialize_admin_config(a) /\ Step
    \/ \E a \in Principals, n \in Pubkeys : add_admin(a, n) /\ Step
    \/ \E a \in Principals, n \in Pubkeys : remove_admin(a, n) /\ Step
    \/ \E a \in Principals : sign_form_submission(a, <<1, 32>>, 1, <<>>) /\ Step
    \/ \E a \in Principals : update_form_approval(a, <<1, 32>>, EmptyString) /\ Step

SpecFull == InitFull /\ [][NextFull]_vars

----------------------------------------------------------------------------
(* Properties *)

Bootstrapped == admin_config # <<>>

Cfg == admin_config[1]

LiveAdmins(cfg) == {cfg.admins[i] : i \in 0..(cfg.admin_count - 1)}

Exists(f) == form_approvals[f] # <<>>

Record(f) == form_approvals[f][1]

(* C1: once the registry exists, 1 <= admin_count <= MAX_ADMINS and no key  *)
(* appears twice among admins[0..admin_count), whatever instructions ran.  *)
C1_AdminCountAndNoDuplicates ==
    Bootstrapped =>
        /\ 1 <= Cfg.admin_count
        /\ Cfg.admin_count <= MAX_ADMINS
        /\ \A i, j \in 0..(Cfg.admin_count - 1) :
              i # j => Cfg.admins[i] # Cfg.admins[j]

(* the list is full and a further AddAdmin by the authority was turned down *)
C1_Witness ==
    /\ Bootstrapped
    /\ Cfg.admin_count = MAX_ADMINS
    /\ result.op = "AddAdmin"
    /\ result.err = "MaxAdminsReached"

(* C2: a SignFormSubmission succeeds only for a form_id with no record; a  *)
(* record is never removed; and a SignFormSubmission for a form_id that    *)
(* has a record fails and leaves that record as it was.  So at most one    *)
(* SignFormSubmission per form_id ever succeeds, in any interleaving.      *)
C2_AtMostOneSignPerFormId ==
    [][\A f \in FormIds :
          /\ Exists(f) => /\ form_approvals'[f] # <<>>
          /\ (result'.op = "SignFormSubmission" /\ result'.key = <<f>>
                /\ result'.err = Ok)
                => (~Exists(f) /\ form_approvals'[f] # <<>>)
          /\ (result'.op = "SignFormSubmission" /\ result'.key = <<f>> /\ Exists(f))
                => (result'.err # Ok /\ form_approvals'[f] = form_approvals[f])
      ]_vars

(* a second admin tried to sign a form_id that another admin had signed *)
C2_Witness ==
    /\ result.op = "SignFormSubmission"
    /\ result.err = "AccountAlreadyInUse"
    /\ Exists(result.key[1])
    /\ Record(result.key[1]).signer # result.caller
    /\ AdminConfig_is_admin(Cfg, result.caller)

(* C3: AddAdmin or RemoveAdmin signed by a key other than the registry's   *)
(* authority fails with UnauthorizedAdmin and leaves the registry as it    *)
(* was, also when the signer is a live admin.                              *)
C3_OnlyAuthorityMutatesRegistry ==
    [][(/\ Bootstrapped
        /\ result'.op \in {"AddAdmin", "RemoveAdmin"}
        /\ result'.caller # Cfg.authority)
          => (result'.err = "UnauthorizedAdmin" /\ admin_config' = admin_config)
      ]_vars

(* a live admin that is not the authority tried to add a key that is not   *)
(* yet an admin                                                            *)
C3_Witness ==
    /\ Bootstrapped
    /\ result.op = "AddAdmin"
    /\ result.err = "UnauthorizedAdmin"
    /\ result.caller # Cfg.authority
    /\ AdminConfig_is_admin(Cfg, result.caller)
    /\ ~AdminConfig_is_admin(Cfg, result.key[1])

(* C4 as stated: SignFormSubmission by a key that is not a live admin      *)
(* fails with UnauthorizedAdmin (checked for the form ids the runtime can  *)
(* derive an address for).                                                 *)
C4_NonAdminGetsUnauthorized ==
    (/\ Bootstrapped
     /\ result.op = "SignFormSubmission"
     /\ StrLen(result.key[1]) <= MAX_SEED_LEN
     /\ ~AdminConfig_is_admin(Cfg, result.caller))
        => result.err = "UnauthorizedAdmin"

(* C4 amended: SignFormSubmission by a key that is not a live admin fails  *)
(* and creates no record; the error is UnauthorizedAdmin when the form_id  *)
(* fits a seed and has no record yet, and otherwise the seed-length or     *)
(* allocation failure that account validation raises first.  Every record  *)
(* is created by a SignFormSubmission whose signer is a live admin at      *)
(* that moment and becomes the record's signer.                            *)
C4_NonAdminCreatesNoRecord ==
    [][\A f \in FormIds :
          /\ (/\ Bootstrapped
              /\ result'.op = "SignFormSubmission"
              /\ result'.key = <<f>>
              /\ ~AdminConfig_is_admin(Cfg, result'.caller))
                => /\ form_approvals' = form_approvals
                   /\ result'.err =
                         IF StrLen(f) > MAX_SEED_LEN THEN "MaxSeedLengthExceeded"
                         ELSE IF Exists(f) THEN "AccountAlreadyInUse"
                         ELSE "UnauthorizedAdmin"
          /\ (~Exists(f) /\ form_approvals'[f] # <<>>)
                => /\ Bootstrapped
                   /\ result'.op = "SignFormSubmission"
                   /\ result'.err = Ok
                   /\ form_approvals'[f][1].signer = result'.caller
                   /\ AdminConfig_is_admin(Cfg, form_approvals'[f][1].signer)
      ]_vars

(* a key that is not a live admin tried to sign a fresh form_id, while     *)
(* another form_id has a record                                            *)
C4_Witness ==
    /\ Bootstrapped
    /\ result.op = "SignFormSubmission"
    /\ result.err = "UnauthorizedAdmin"
    /\ ~AdminConfig_is_admin(Cfg, result.caller)
    /\ ~Exists(result.key[1])
    /\ \E f \in FormIds : Exists(f)

(* C5: a record that exists keeps its form_id, form_hash, signer and       *)
(* approved_at in every step; its metadata changes only in a successful    *)
(* UpdateFormApproval of that form_id.                                     *)
C5_WriteOnceFields ==
    [][\A f \in FormIds :
          Exists(f) =>
              /\ form_approvals'[f] # <<>>
              /\ form_approvals'[f][1].form_id = Record(f).form_id
              /\ form_approvals'[f][1].form_hash = Record(f).form_hash
              /\ form_approvals'[f][1].signer = Record(f).signer
              /\ form_approvals'[f][1].approved_at = Record(f).approved_at
              /\ form_approvals'[f][1].metadata # Record(f).metadata
                    => /\ result'.op = "UpdateFormApproval"
                       /\ result'.key = <<f>>
                       /\ result'.err = Ok
      ]_vars

(* an UpdateFormApproval succeeded on a record created at an earlier time, *)
(* while a second record exists                                            *)
C5_Witness ==
    /\ result.op = "UpdateFormApproval"
    /\ result.err = Ok
    /\ Exists(result.key[1])
    /\ Record(result.key[1]).approved_at < clock
    /\ \E f \in FormIds : f # result.key[1] /\ Exists(f)

(* C6: for every live admin a, form_id f with no record, non-zero hash h   *)
(* and metadata m absent or of at most MAX_METADATA_LENGTH bytes,          *)
(* SignFormSubmission(a, f, h, m) succeeds and GetFormApprovalDetails(f)   *)
(* then returns (f, h, a, clock at creation, m or "").  Stated for the     *)
(* form ids of at most MAX_SEED_LEN bytes, a part of the claim's "at most  *)
(* MAX_FORM_ID_LENGTH bytes".                                              *)
C6_SignThenGetRoundTrip ==
    [][\A a \in Principals, f \in FormIds, h \in Hashes, m \in MetadataOptions :
          (/\ Bootstrapped
           /\ AdminConfig_is_admin(Cfg, a)
           /\ ~Exists(f)
           /\ StrLen(f) <= MAX_FORM_ID_LENGTH
           /\ StrLen(f) <= MAX_SEED_LEN
           /\ h # ZeroHash
           /\ (m = <<>> \/ StrLen(m[1]) <= MAX_METADATA_LENGTH)
           /\ sign_form_submission(a, f, h, m))
             => /\ result'.err = Ok
                /\ form_approvals'[f] # <<>>
                /\ FormApprovalDetails(form_approvals'[f][1])
                      = <<f, h, a, clock, unwrap_or_default(m)>>
      ]_vars

(* C7 as stated: UpdateFormApproval signed by a record's signer that is no *)
(* longer a live admin, with at most MAX_METADATA_LENGTH bytes of          *)
(* metadata, succeeds and sets the record's metadata.                      *)
C7_RemovedSignerCanUpdate ==
    [][\A a \in Principals, f \in FormIds, m \in MetadataStrings :
          (/\ Bootstrapped
           /\ Exists(f)
           /\ Record(f).signer = a
           /\ ~AdminConfig_is_admin(Cfg, a)
           /\ StrLen(m) <= MAX_METADATA_LENGTH
           /\ update_form_approval(a, f, m))
             => /\ result'.err = Ok
                /\ form_approvals'[f][1].metadata = m
      ]_vars

(* C7 amended: UpdateFormApproval needs both: its signer is the record's   *)
(* signer and is a live admin now.  Signed by the record's signer after    *)
(* that key was removed from the registry, it fails with UnauthorizedAdmin *)
(* for every metadata and leaves the record as it was.                     *)
C7_RemovedSignerCannotUpdate ==
    [][\A f \in FormIds :
          (/\ Bootstrapped
           /\ Exists(f)
           /\ result'.op = "UpdateFormApproval"
           /\ result'.key = <<f>>
           /\ result'.caller = Record(f).signer
           /\ ~AdminConfig_is_admin(Cfg, result'.caller))
             => /\ result'.err = "UnauthorizedAdmin"
                /\ form_approvals' = form_approvals
      ]_vars

(* the signer of a record, no longer a live admin, tried to update it *)
C7_Witness ==
    /\ Bootstrapped
    /\ result.op = "UpdateFormApproval"
    /\ result.err = "UnauthorizedAdmin"
    /\ Exists(result.key[1])
    /\ Record(result.key[1]).signer = result.caller
    /\ ~AdminConfig_is_admin(Cfg, result.caller)

(* C8: on an existing record, UpdateFormApproval signed by a key other     *)
(* than the record's signer fails with UnauthorizedAdmin and leaves the    *)
(* record as it was; signed by the record's signer, a live admin, with at  *)
(* most MAX_METADATA_LENGTH bytes, it succeeds and the record's metadata   *)
(* is the new metadata.                                                    *)
C8_UpdateBySignerOnly ==
    [][\A a \in Principals, f \in FormIds, m \in MetadataStrings :
          (/\ Bootstrapped
           /\ Exists(f)
           /\ update_form_approval(a, f, m))
             => /\ a # Record(f).signer
                      => /\ result'.err = "UnauthorizedAdmin"
                         /\ form_approvals' = form_approvals
                /\ (/\ a = Record(f).signer
                    /\ AdminConfig_is_admin(Cfg, a)
                    /\ StrLen(m) <= MAX_METADATA_LENGTH)
                      => /\ result'.err = Ok
                         /\ form_approvals'[f][1].metadata = m
      ]_vars

(* C9: SignFormSubmission by a live admin for a form_id with no record     *)
(* fails with FormIdTooLong when the form_id is longer than                *)
(* MAX_FORM_ID_LENGTH, else with MetadataTooLong when the metadata is      *)
(* present and longer than MAX_METADATA_LENGTH, else with InvalidFormHash  *)
(* when the hash is all zero; and then no account changes.                 *)
C9_ValidationErrors ==
    [][\A a \in Principals, f \in FormIds, h \in Hashes, m \in MetadataOptions :
          (/\ Bootstrapped
           /\ AdminConfig_is_admin(Cfg, a)
           /\ ~Exists(f)
           /\ sign_form_submission(a, f, h, m))
             => LET idTooLong == StrLen(f) > MAX_FORM_ID_LENGTH
                    metaTooLong == m # <<>> /\ StrLen(m[1]) > MAX_METADATA_LENGTH
                    zeroHash == h = ZeroHash
                    expected == IF idTooLong THEN "FormIdTooLong"
                                ELSE IF metaTooLong THEN "MetadataTooLong"
                                ELSE "InvalidFormHash"
                IN  (idTooLong \/ metaTooLong \/ zeroHash)
                       => /\ result'.err = expected
                          /\ form_approvals' = form_approvals
                          /\ admin_config' = admin_config
      ]_vars

(* C10: a successful RemoveAdmin of the key at index i < admin_count - 1   *)
(* puts the former last live admin into slot i, leaves every other live    *)
(* slot as it was, lowers admin_count by 1, and the live admins are the    *)
(* former ones without the target.                                         *)
C10_SwapRemove ==
    [][\A i \in 0..(MAX_ADMINS - 1) :
          (/\ Bootstrapped
           /\ result'.op = "RemoveAdmin"
           /\ result'.err = Ok
           /\ i < Cfg.admin_count - 1
           /\ result'.key = <<Cfg.admins[i]>>)
             => LET old == Cfg
                    new == admin_config'[1]
                    last == old.admin_count - 1
                IN  /\ new.admin_count = old.admin_count - 1
                    /\ new.admins[i] = old.admins[last]
                    /\ \A j \in 0..(last - 1) : j # i => new.admins[j] = old.admins[j]
                    /\ LiveAdmins(new) = LiveAdmins(old) \ {old.admins[i]}
                    /\ new.authority = old.authority
      ]_vars

(* a key was removed from a slot before the last one, and at least two     *)
(* other live slots were there to be left alone                            *)
C10_Witness ==
    /\ Bootstrapped
    /\ result.op = "RemoveAdmin"
    /\ result.err = Ok
    /\ result.ret # <<>>
    /\ result.ret[1] < Cfg.admin_count
    /\ Cfg.admin_count >= 3

(* C11: RemoveAdmin signed by the authority, with admin_count = 1, fails   *)
(* with CannotRemoveLastAdmin for every target, a live admin or not; with  *)
(* admin_count >= 2 and a target that is not a live admin it fails with    *)
(* AdminNotFound; the registry is as it was in both cases.                 *)
C11_RemoveGuards ==
    [][(/\ Bootstrapped
        /\ result'.op = "RemoveAdmin"
        /\ result'.caller = Cfg.authority)
          => /\ Cfg.admin_count = 1
                   => /\ result'.err = "CannotRemoveLastAdmin"
                      /\ admin_config' = admin_config
             /\ (/\ Cfg.admin_count >= 2
                 /\ ~AdminConfig_is_admin(Cfg, result'.key[1]))
                   => /\ result'.err = "AdminNotFound"
                      /\ admin_config' = admin_config
      ]_vars

(* with one admin left, the authority tried to remove a key that is not    *)
(* that admin                                                              *)
C11_Witness ==
    /\ Bootstrapped
    /\ Cfg.admin_count = 1
    /\ result.op = "RemoveAdmin"
    /\ result.caller = Cfg.authority
    /\ result.err = "CannotRemoveLastAdmin"
    /\ ~AdminConfig_is_admin(Cfg, result.key[1])

(* C12: AddAdmin signed by the authority fails with AdminAlreadyExists     *)
(* whenever new_admin is a live admin, also with a full list, and          *)
(* otherwise with MaxAdminsReached whenever admin_count = MAX_ADMINS; the  *)
(* registry is as it was in both cases.                                    *)
C12_AddGuards ==
    [][(/\ Bootstrapped
        /\ result'.op = "AddAdmin"
        /\ result'.caller = Cfg.authority)
          => /\ AdminConfig_is_admin(Cfg, result'.key[1])
                   => /\ result'.err = "AdminAlreadyExists"
                      /\ admin_config' = admin_config
             /\ (/\ ~AdminConfig_is_admin(Cfg, result'.key[1])
                 /\ Cfg.admin_count = MAX_ADMINS)
                   => /\ result'.err = "MaxAdminsReached"
                      /\ admin_config' = admin_config
      ]_vars

(* with a full list, the authority tried to add a key that is on it *)
C12_Witness ==
    /\ Bootstrapped
    /\ Cfg.admin_count = MAX_ADMINS
    /\ result.op = "AddAdmin"
    /\ result.caller = Cfg.authority
    /\ result.err = "AdminAlreadyExists"
    /\ AdminConfig_is_admin(Cfg, result.key[1])

(* C13: VerifyFormApproval for a form_id that has a record returns true    *)
(* exactly when expected_hash is the stored form_hash and false otherwise; *)
(* for a form_id without a record it fails; it changes neither a record    *)
(* nor the registry.                                                       *)
C13_VerifyComparesStoredHash ==
    [][result'.op = "VerifyFormApproval"
         => LET f == result'.key[1]
            IN  /\ \E h \in Hashes : verify_form_approval(DefaultPubkey, f, h)
                /\ \A h \in Hashes :
                     verify_form_approval(DefaultPubkey, f, h)
                       => /\ Exists(f)
                               => /\ result'.err = Ok
                                  /\ result'.ret
                                       = <<(Record(f).form_hash = h)>>
                          /\ ~Exists(f) => /\ result'.err # Ok
                                           /\ result'.ret = <<>>
                          /\ admin_config' = admin_config
                          /\ form_approvals' = form_approvals
      ]_vars

(* a verification of an existing record against another hash said false *)
C13_Witness ==
    /\ result.op = "VerifyFormApproval"
    /\ Exists(result.key[1])
    /\ result.err = Ok
    /\ result.ret = <<FALSE>>

(* C14: Bootstrap succeeds when no registry exists and leaves authority =  *)
(* caller, the caller as only live admin and admin_count = 1; once a       *)
(* registry exists it exists for ever, and every Bootstrap by any caller   *)
(* fails and leaves authority, admins and admin_count as they were.        *)
C14_BootstrapOnce ==
    [][/\ Bootstrapped => Bootstrapped'
       /\ result'.op = "InitializeAdminConfig"
            => /\ ~Bootstrapped
                    => /\ result'.err = Ok
                       /\ Bootstrapped'
                       /\ admin_config'[1].authority = result'.caller
                       /\ admin_config'[1].admin_count = 1
                       /\ admin_config'[1].admins[0] = result'.caller
                       /\ LiveAdmins(admin_config'[1]) = {result'.caller}
               /\ Bootstrapped
                    => /\ result'.err # Ok
                       /\ admin_config' = admin_config
      ]_vars

(* a second Bootstrap, by a caller other than the authority, on a registry *)
(* that has grown since the first                                          *)
C14_Witness ==
    /\ Bootstrapped
    /\ result.op = "InitializeAdminConfig"
    /\ result.err # Ok
    /\ result.caller # Cfg.authority
    /\ Cfg.admin_count >= 2

(* C15: a successful AddAdmin writes new_admin at the index that was       *)
(* admin_count, increases admin_count by exactly 1 and leaves every slot  *)
(* that was live as it was; so every key that was an admin is one still,   *)
(* and new_admin is one now.                                               *)
C15_AddAppends ==
    [][(/\ Bootstrapped
        /\ result'.op = "AddAdmin"
        /\ result'.err = Ok)
          => LET old == Cfg
                 new == admin_config'[1]
                 new_admin == result'.key[1]
             IN  /\ new.admins[old.admin_count] = new_admin
                 /\ new.admin_count = old.admin_count + 1
                 /\ \A i \in 0..(old.admin_count - 1) :
                        new.admins[i] = old.admins[i]
                 /\ \A p \in Pubkeys :
                        AdminConfig_is_admin(old, p)
                          => AdminConfig_is_admin(new, p)
                 /\ AdminConfig_is_admin(new, new_admin)
      ]_vars

(* an AddAdmin has just filled the last slot of the list *)
C15_Witness ==
    /\ Bootstrapped
    /\ result.op = "AddAdmin"
    /\ result.err = Ok
    /\ Cfg.admin_count = MAX_ADMINS
    /\ Cfg.admins[MAX_ADMINS - 1] = result.key[1]

(* C16: every successful AddAdmin emits AdminAdded {admin, authority},     *)
(* every successful RemoveAdmin emits AdminRemoved {admin, authority},     *)
(* every successful SignFormSubmission emits FormApproved {form_id,        *)
(* form_hash, signer, approved_at} with the values of the record, and a    *)
(* failed instruction emits no event.                                      *)
C16_SuccessEmitsEvent ==
    /\ (result.op = "AddAdmin" /\ result.err = Ok)
         => result.events = <<[name |-> "AdminAdded",
                               admin |-> result.key[1],
                               authority |-> result.caller]>>
    /\ (result.op = "RemoveAdmin" /\ result.err = Ok)
         => result.events = <<[name |-> "AdminRemoved",
                               admin |-> result.key[1],
                               authority |-> result.caller]>>
    /\ (result.op = "SignFormSubmission" /\ result.err = Ok)
         => result.events
              = <<[name |-> "FormApproved",
                   form_id |-> Record(result.key[1]).form_id,
                   form_hash |-> Record(result.key[1]).form_hash,
                   signer |-> Record(result.key[1]).signer,
                   approved_at |-> Record(result.key[1]).approved_at]>>
    /\ result.err # Ok => result.events = <<>>

(* C17: when admin_count >= 2 and the authority is a live admin,           *)
(* RemoveAdmin(authority, authority) succeeds; while the authority is not  *)
(* a live admin, AddAdmin and RemoveAdmin signed by it still pass the      *)
(* authorization check, and SignFormSubmission signed by it fails with     *)
(* UnauthorizedAdmin (stated for form ids that fit a seed).                *)
C17_AuthoritySignGetsUnauthorized ==
    [][Bootstrapped =>
         /\ (/\ result'.op = "RemoveAdmin"
             /\ result'.caller = Cfg.authority
             /\ result'.key = <<Cfg.authority>>
             /\ Cfg.admin_count >= 2
             /\ AdminConfig_is_admin(Cfg, Cfg.authority))
               => result'.err = Ok
         /\ (/\ ~AdminConfig_is_admin(Cfg, Cfg.authority)
             /\ result'.caller = Cfg.authority)
               => /\ result'.op \in {"AddAdmin", "RemoveAdmin"}
                        => result'.err # "UnauthorizedAdmin"
                  /\ (/\ result'.op = "SignFormSubmission"
                      /\ StrLen(result'.key[1]) <= MAX_SEED_LEN)
                        => result'.err = "UnauthorizedAdmin"
      ]_vars

(* C17 amended: when admin_count >= 2 and the authority is a live admin,   *)
(* RemoveAdmin(authority, authority) succeeds and leaves the authority     *)
(* field as it was and the authority off the list; while the authority is  *)
(* not a live admin, AddAdmin and RemoveAdmin signed by it still pass the  *)
(* authorization check, AddAdmin(authority, authority) puts it back on a   *)
(* list that is not full, and SignFormSubmission signed by it fails and    *)
(* creates no record: with UnauthorizedAdmin when the form_id fits a seed  *)
(* and has no record yet, and otherwise with the seed-length or allocation *)
(* failure that account validation raises first.                           *)
C17_AuthorityKeepsRights ==
    [][Bootstrapped =>
         /\ (/\ result'.op = "RemoveAdmin"
             /\ result'.caller = Cfg.authority
             /\ result'.key = <<Cfg.authority>>
             /\ Cfg.admin_count >= 2
             /\ AdminConfig_is_admin(Cfg, Cfg.authority))
               => /\ result'.err = Ok
                  /\ admin_config'[1].authority = Cfg.authority
                  /\ ~AdminConfig_is_admin(admin_config'[1], Cfg.authority)
         /\ (/\ ~AdminConfig_is_admin(Cfg, Cfg.authority)
             /\ result'.caller = Cfg.authority)
               => /\ result'.op \in {"AddAdmin", "RemoveAdmin"}
                        => result'.err \notin {"UnauthorizedAdmin",
                                               "AccountNotInitialized"}
                  /\ (/\ result'.op = "AddAdmin"
                      /\ result'.key = <<Cfg.authority>>
                      /\ Cfg.admin_count < MAX_ADMINS)
                        => /\ result'.err = Ok
                           /\ AdminConfig_is_admin(admin_config'[1],
                                                   Cfg.authority)
                  /\ result'.op = "SignFormSubmission"
                        => /\ form_approvals' = form_approvals
                           /\ result'.err =
                                IF StrLen(result'.key[1]) > MAX_SEED_LEN
                                THEN "MaxSeedLengthExceeded"
                                ELSE IF Exists(result'.key[1])
                                THEN "AccountAlreadyInUse"
                                ELSE "UnauthorizedAdmin"
      ]_vars

(* the authority, off the list, tried to sign a fresh form_id *)
C17_Witness ==
    /\ Bootstrapped
    /\ ~AdminConfig_is_admin(Cfg, Cfg.authority)
    /\ result.op = "SignFormSubmission"
    /\ result.caller = Cfg.authority
    /\ result.err = "UnauthorizedAdmin"

(* C18: every existing record has a form_id of 1 to 64 bytes, a form_hash *)
(* that is not all zero, and a metadata of 0 to 256 bytes.                 *)
C18_RecordFieldBounds ==
    \A f \in FormIds :
       Exists(f) => /\ StrLen(Record(f).form_id) >= 1
                    /\ StrLen(Record(f).form_id) <= MAX_FORM_ID_LENGTH
                    /\ Record(f).form_hash # ZeroHash
                    /\ StrLen(Record(f).metadata) >= 0
                    /\ StrLen(Record(f).metadata) <= MAX_METADATA_LENGTH

(* C18 amended: every existing record has a form_id of 0 to 64 bytes (the  *)
(* one it is stored under), a form_hash that is not all zero, and a        *)
(* metadata of 0 to 256 bytes.                                             *)
C18_RecordFieldBoundsFromZero ==
    \A f \in FormIds :
       Exists(f) => /\ Record(f).form_id = f
                    /\ StrLen(Record(f).form_id) >= 0
                    /\ StrLen(Record(f).form_id) <= MAX_FORM_ID_LENGTH
                    /\ Record(f).form_hash # ZeroHash
                    /\ StrLen(Record(f).metadata) >= 0
                    /\ StrLen(Record(f).metadata) <= MAX_METADATA_LENGTH

(* a record with the empty form_id exists beside one with a 32-byte id *)
C18_Witness ==
    /\ Exists(EmptyString)
    /\ StrLen(Record(EmptyString).form_id) = 0
    /\ \E f \in FormIds : StrLen(f) > 0 /\ Exists(f)

(* C19: once the registry exists, every slot admins[i] with                *)
(* admin_count <= i < MAX_ADMINS holds the default key.                    *)
C19_TailIsDefault ==
    Bootstrapped
      => \A i \in Cfg.admin_count..(MAX_ADMINS - 1) :
            Cfg.admins[i] = DefaultPubkey

(* an admin that was not the last of a list of at least three has just     *)
(* been removed: the last key was moved and its old slot is outside the    *)
(* live range                                                              *)
C19_Witness ==
    /\ Bootstrapped
    /\ result.op = "RemoveAdmin"
    /\ result.err = Ok
    /\ Cfg.admin_count >= 2
    /\ result.ret[1] < Cfg.admin_count
    /\ Cfg.admins[result.ret[1]] # DefaultPubkey

(* C20: once the registry exists, its authority is the same after every    *)
(* step, whatever the instruction, its caller and its outcome.             *)
C20_AuthorityNeverChanges ==
    [][Bootstrapped => /\ Bootstrapped'
                       /\ admin_config'[1].authority = Cfg.authority
      ]_vars

(* with the authority off the list, a live admin tried to add an admin     *)
(* and was refused                                                         *)
C20_Witness ==
    /\ Bootstrapped
    /\ ~AdminConfig_is_admin(Cfg, Cfg.authority)
    /\ result.op = "AddAdmin"
    /\ result.caller # Cfg.authority
    /\ AdminConfig_is_admin(Cfg, result.caller)
    /\ result.err = "UnauthorizedAdmin"

====
